---- MODULE Spec2Model ----
(***************************************************************************)
(* Model of the RAG demo service (api_rag_fastapi.py) and of the corpus    *)
(* loader (chunk.py).                                                      *)
(*                                                                         *)
(* Scores and thresholds are modelled in tenths: the float 0.5 is the      *)
(* integer 5, the threshold bound 1.0 is 10.  Python's None is the string  *)
(* "None" for the objects that are either None or one opaque value, and a  *)
(* record [null |-> TRUE, ...] for the Optional[float] request field,      *)
(* whose non-null values are integers.                                     *)
(***************************************************************************)
EXTENDS Integers, Sequences, FiniteSets, TLC

(* ------------------------------ bounds --------------------------------- *)
\* Largest number of points the collection holds.
MaxPoints == 2
\* Largest in-range limit a request carries.
MaxLimit == 2
\* Largest number of chapters of a document.
MaxChapters == 2
\* Largest number of sections of a document, all chapters together.
MaxSections == 3

(* ------------------------- program constants --------------------------- *)
\* /search: limit = Query(5, ge=1, le=20)
SearchLimitMin == 1
SearchLimitMax == 20
\* /search: score_threshold = Query(0.0, ge=0.0, le=1.0), in tenths
SearchThresholdMin == 0
SearchThresholdMax == 10

VARIABLES
    proc,                \* position of the process: "main", "uvicorn_starting", "serving", "exited"
    init_result,         \* what the last initialize_services() returned: "none", "ok", "failed"
    qdrant_client,       \* global qdrant_client of the serving module: "None" or "client"
    embedding_model,     \* global embedding_model of the serving module: "None" or "model"
    OPENROUTER_API_KEY,  \* environment value read at import: "None", "" or a key
    points,              \* ids of the points stored in the collection
    req,                 \* the request handled last
    ext,                 \* what the external services did during that request
    raw,                 \* the points the index returned to that request
    calls,               \* the external calls that request made, in order
    resp,                \* the response to that request
    ans_in,              \* input of a direct call of generate_llm_answer
    ans_out,             \* its outcome
    phase,               \* position of the corpus loader run
    json_doc,            \* the parsed JSON document on disk
    data,                \* what load_and_improve_json_data returned
    chunks,              \* what extract_chunks_from_json returned
    first_chunks,        \* what the run of extract_chunks_from_json before the last returned
    coll,                \* the collection COLLECTION_NAME in the index: exists, stored points by id
    run,                 \* the last run of setup_qdrant_collection_improved
    tool                 \* the process of query_rag.py: configuration, index, position, last command

apiVars == <<proc, init_result, qdrant_client, embedding_model, OPENROUTER_API_KEY,
             points, req, ext, raw, calls, resp>>
ansVars == <<ans_in, ans_out>>
loaderVars == <<phase, json_doc, data, chunks, first_chunks>>
ingestVars == <<coll, run>>
toolVars == <<tool>>
vars == <<apiVars, ansVars, loaderVars, ingestVars, toolVars>>

(* ------------------------------ helpers -------------------------------- *)
Min(a, b) == IF a < b THEN a ELSE b
Max(a, b) == IF a < b THEN b ELSE a

\* Python truthiness of an object that is None, "" or an opaque value.
Truthy(x) == x \notin {"None", ""}

\* Similarity scores the index can report (cosine similarity, in tenths).
Scores == {-5, 3, 5, 9}

\* The Optional[float] field score_threshold.
NullThreshold == [null |-> TRUE, v |-> 0]
Threshold(t) == [null |-> FALSE, v |-> t]

(* ---------------------- startup: initialize_services ------------------- *)
\* What the constructors and the connection check can do during
\* initialize_services: QdrantClient(url=...) raises, get_collections() raises
\* (index unreachable), SentenceTransformer(...) raises, or all succeed.
InitOutcomes == {"client_ctor_raises", "get_collections_raises", "model_load_raises", "ok"}

\* global qdrant_client after initialize_services: assigned at line 75, before
\* the connection is verified.
InitClient(o, old) == IF o = "client_ctor_raises" THEN old ELSE "client"

\* global embedding_model after initialize_services: assigned at line 83 only.
InitModel(o, old) == IF o = "ok" THEN "model" ELSE old

\* Return value of initialize_services: True, or False from the except clause.
InitReturn(o) == o = "ok"

InitResult(o) == IF InitReturn(o) THEN "ok" ELSE "failed"

\* __main__ after initialize_services returned ok: run uvicorn or fall through
\* to the end of the script.
MainNext(ok) == IF ok THEN "uvicorn_starting" ELSE "exited"

(* --------------------------- search_documents -------------------------- *)
\* The sequences of points query_points(limit=limit).points can be: at most
\* limit points, each stored point at most once, scores in any order.
RawResults(limit) ==
    LET m == Min(Max(limit, 0), Cardinality(points))
    IN  { q \in UNION { [1..k -> [id : points, score : Scores]] : k \in 0..m } :
            \A i, j \in DOMAIN q : i # j => q[i].id # q[j].id }

\* One formatted result; content stands for the payload fields of point id.
FormatResult(p) == [score |-> p.score, content |-> p.id]

FormatResults(results) == [i \in DOMAIN results |-> FormatResult(results[i])]

HttpError(code, made) == [kind |-> "http", status |-> code, value |-> <<>>, calls |-> made]

\* search_documents with an except clause that answers the empty list.
SearchDocumentsSwallow(limit, e) ==
    IF ~Truthy(qdrant_client) \/ ~Truthy(embedding_model)
    THEN [kind |-> "return", status |-> 0, value |-> <<>>, calls |-> <<>>]
    ELSE IF e.embed = "raises"
    THEN [kind |-> "return", status |-> 0, value |-> <<>>, calls |-> <<"embed">>]
    ELSE IF e.query = "raises"
    THEN [kind |-> "return", status |-> 0, value |-> <<>>, calls |-> <<"embed", "query">>]
    ELSE [kind |-> "return", status |-> 0, value |-> FormatResults(e.raw),
          calls |-> <<"embed", "query">>]

\* search_documents asking the index a second time when the first query raises.
SearchDocumentsRetry(limit, e) ==
    IF ~Truthy(qdrant_client) \/ ~Truthy(embedding_model)
    THEN HttpError(500, <<>>)
    ELSE IF e.embed = "raises"
    THEN HttpError(500, <<"embed">>)
    ELSE IF e.query = "raises"
    THEN HttpError(500, <<"embed", "query", "query">>)
    ELSE [kind |-> "return", status |-> 0, value |-> FormatResults(e.raw),
          calls |-> <<"embed", "query">>]

\* search_documents(query, limit) with the environment's behaviour e:
\* e.embed and e.query are "ok" or "raises", e.raw is what the index returns.
\* Every exception, the HTTPException of line 102 included, leaves as
\* HTTPException(500) through the except clause of line 133.
SearchDocuments(limit, e) ==
    IF ~Truthy(qdrant_client) \/ ~Truthy(embedding_model)
    THEN HttpError(500, <<>>)
    ELSE IF e.embed = "raises"
    THEN HttpError(500, <<"embed">>)
    ELSE IF e.query = "raises"
    THEN HttpError(500, <<"embed", "query">>)
    ELSE [kind |-> "return", status |-> 0, value |-> FormatResults(e.raw),
          calls |-> <<"embed", "query">>]

(* -------------------------- generate_llm_answer ------------------------ *)
\* What the provider call can do.
GenOutcomes == {"ok", "request_exception", "timeout", "status_non200", "malformed_body"}

\* The try block without the test of the status code.
GenerateTryNoStatusCheck(outcome) ==
    IF outcome \in {"request_exception", "timeout"}
    THEN [kind |-> "exception", value |-> "None"]
    ELSE IF outcome = "malformed_body"
    THEN [kind |-> "exception", value |-> "None"]
    ELSE [kind |-> "return", value |-> "text"]

\* The body of the try block of generate_llm_answer.
GenerateTry(outcome) ==
    IF outcome \in {"request_exception", "timeout"}
    THEN [kind |-> "exception", value |-> "None"]
    ELSE IF outcome = "status_non200"
    THEN [kind |-> "return", value |-> "None"]
    ELSE IF outcome = "malformed_body"
    THEN [kind |-> "exception", value |-> "None"]
    ELSE [kind |-> "return", value |-> "text"]

\* generate_llm_answer without its except clause.
GenerateLLMAnswerNoExcept(key, context_chunks, outcome) ==
    IF ~Truthy(key)
    THEN [raised |-> FALSE, value |-> "None", posted |-> FALSE]
    ELSE LET t == GenerateTry(outcome)
         IN  [raised |-> t.kind = "exception", value |-> t.value, posted |-> TRUE]

\* generate_llm_answer(question, context_chunks): what it returns, whether it
\* raised, and whether it posted to the provider.
GenerateLLMAnswer(key, context_chunks, outcome) ==
    IF ~Truthy(key)
    THEN [raised |-> FALSE, value |-> "None", posted |-> FALSE]
    ELSE LET t == GenerateTry(outcome)
         IN  IF t.kind = "exception"
             THEN [raised |-> FALSE, value |-> "None", posted |-> TRUE]
             ELSE [raised |-> FALSE, value |-> t.value, posted |-> TRUE]

(* ------------------------------ handlers ------------------------------- *)
\* The list comprehension building its list back to front.
KeepAtLeastReversed(results, t) ==
    LET kept == SelectSeq(results, LAMBDA r : r.score >= t)
    IN  [i \in DOMAIN kept |-> kept[Len(kept) + 1 - i]]

\* The list comprehension of the threshold filter.
KeepAtLeast(results, t) == SelectSeq(results, LAMBDA r : r.score >= t)

\* The filter without its comprehension: every result is kept.
ThresholdFilterNone(results, t) == results

\* The filter without its guard: it applies for every threshold.
ThresholdFilterAlways(results, t) == KeepAtLeast(results, t)

\* Lines 282-286 and 356-357: the filter applies only when the threshold is
\* positive.
ThresholdFilter(results, t) == IF t > 0 THEN KeepAtLeast(results, t) ELSE results

\* The handlers without "except HTTPException: raise".
HandlerStatusAll500(kind, status) == IF kind = "return" THEN 200 ELSE 500

\* The except clauses of the handlers: an HTTPException is re-raised as it is,
\* any other exception becomes a 500.
HandlerStatus(kind, status) ==
    IF kind = "return" THEN 200
    ELSE IF kind = "http" THEN status
    ELSE 500

Response(code, results, answer) == [status |-> code, results |-> results, answer |-> answer]

\* RAGResponse with top_result taken from the end of the list.
RAGResponseLast(search_results, llm_answer) ==
    [status |-> 200, results |-> search_results, answer |-> llm_answer,
     top_result |-> search_results[Len(search_results)],
     total_results |-> Len(search_results)]

\* The RAGResponse rag_query returns (lines 310-317), sent with status 200:
\* top_result=search_results[0], total_results=len(search_results).
RAGResponse(search_results, llm_answer) ==
    [status |-> 200, results |-> search_results, answer |-> llm_answer,
     top_result |-> search_results[1],
     total_results |-> Len(search_results)]

Called(made, name) == \E i \in DOMAIN made : made[i] = name

\* What a handler body ends with: a returned value, an HTTPException or
\* another exception.
Outcome(kind, code, results, answer, made) ==
    [kind |-> kind, status |-> code, results |-> results, answer |-> answer, calls |-> made]

\* The body of search_only (lines 344-371).
SearchOnlyBody(request, e) ==
    LET sd == SearchDocuments(request.limit, e)
    IN  IF sd.kind # "return"
        THEN Outcome(sd.kind, sd.status, <<>>, "None", sd.calls)
        ELSE IF sd.value = <<>>
        THEN Outcome("http", 404, <<>>, "None", sd.calls)
        ELSE LET results == ThresholdFilter(sd.value, request.score_threshold.v)
             IN  IF results = <<>>
                 THEN Outcome("http", 404, <<>>, "None", sd.calls)
                 ELSE Outcome("return", 200, results, "None", sd.calls)

\* The body of rag_query (lines 269-317).  Comparing a null score_threshold
\* with 0 raises TypeError.
RagQueryBody(request, e) ==
    LET sd == SearchDocuments(request.limit, e)
    IN  IF sd.kind # "return"
        THEN Outcome(sd.kind, sd.status, <<>>, "None", sd.calls)
        ELSE IF sd.value = <<>>
        THEN Outcome("http", 404, <<>>, "None", sd.calls)
        ELSE IF request.score_threshold.null
        THEN Outcome("exception", 0, <<>>, "None", sd.calls)
        ELSE LET results == ThresholdFilter(sd.value, request.score_threshold.v)
             IN  IF results = <<>>
                 THEN Outcome("http", 404, <<>>, "None", sd.calls)
                 ELSE IF request.use_llm /\ Truthy(OPENROUTER_API_KEY)
                 THEN LET a == GenerateLLMAnswer(OPENROUTER_API_KEY, results, e.gen)
                          made == IF a.posted THEN Append(sd.calls, "generate") ELSE sd.calls
                      IN  IF a.raised
                          THEN Outcome("exception", 0, <<>>, "None", made)
                          ELSE Outcome("return", 200, results, a.value, made)
                 ELSE Outcome("return", 200, results, "None", sd.calls)

(* ------------------- /health, /collection/info, /config ---------------- *)
\* collection_info of HealthResponse: None, or the counts get_collection gave.
NoInfo == [null |-> TRUE, points_count |-> 0]

Info == [null |-> FALSE, points_count |-> Cardinality(points)]

\* The HealthResponse of lines 245-252, in the order of its fields, with the
\* index calls made to build it.
HealthBody(status, connected, loaded, available, collection_info, made) ==
    [status |-> status,
     qdrant_connected |-> connected,
     embedding_model_loaded |-> loaded,
     openrouter_available |-> available,
     collection_info |-> collection_info,
     calls |-> made]

\* health_check creating the collection it does not find listed.
HealthCheckCreating(e) ==
    LET asked == Truthy(qdrant_client)
        qdrant_connected == asked /\ e.get_collections = "listed"
        collection_info ==
            IF asked /\ e.get_collections # "raises" /\ e.get_collection = "ok"
            THEN Info ELSE NoInfo
        made == IF ~asked THEN <<>>
                ELSE IF e.get_collections = "raises" THEN <<"get_collections">>
                ELSE IF e.get_collections = "not_listed"
                THEN <<"get_collections", "create_collection">>
                ELSE <<"get_collections", "get_collection">>
        embedding_loaded == embedding_model # "None"
        status == IF qdrant_connected /\ embedding_loaded THEN "healthy" ELSE "unhealthy"
    IN  HealthBody(status, qdrant_connected, embedding_loaded,
                   OPENROUTER_API_KEY # "None", collection_info, made)

\* health_check answering "degraded" when only the generator is missing.
HealthCheckDegraded(e) ==
    LET asked == Truthy(qdrant_client)
        qdrant_connected == asked /\ e.get_collections = "listed"
        collection_info ==
            IF asked /\ e.get_collections # "raises" /\ e.get_collection = "ok"
            THEN Info ELSE NoInfo
        made == IF ~asked THEN <<>>
                ELSE IF e.get_collections = "raises" THEN <<"get_collections">>
                ELSE <<"get_collections", "get_collection">>
        embedding_loaded == embedding_model # "None"
        openrouter_available == OPENROUTER_API_KEY # "None"
        status == IF ~qdrant_connected \/ ~embedding_loaded THEN "unhealthy"
                  ELSE IF openrouter_available THEN "healthy" ELSE "degraded"
    IN  HealthBody(status, qdrant_connected, embedding_loaded,
                   openrouter_available, collection_info, made)

\* The body of health_check (lines 216-250) with the index's behaviour e:
\* e.get_collections is "raises", "listed" or "not_listed", e.get_collection
\* is "ok" or "raises".  qdrant_connected is assigned on line 224, before
\* get_collection is called on line 227; the except clause of line 233
\* assigns nothing.  "degraded" of line 241 is overwritten on line 243
\* whenever it was chosen.
HealthCheckBody(e) ==
    LET asked == Truthy(qdrant_client)
        qdrant_connected == asked /\ e.get_collections = "listed"
        collection_info ==
            IF asked /\ e.get_collections # "raises" /\ e.get_collection = "ok"
            THEN Info ELSE NoInfo
        made == IF ~asked THEN <<>>
                ELSE IF e.get_collections = "raises" THEN <<"get_collections">>
                ELSE <<"get_collections", "get_collection">>
        embedding_loaded == embedding_model # "None"
        openrouter_available == OPENROUTER_API_KEY # "None"
        first == IF qdrant_connected /\ embedding_loaded THEN "healthy" ELSE "degraded"
        status == IF ~qdrant_connected \/ ~embedding_loaded THEN "unhealthy" ELSE first
    IN  HealthBody(status, qdrant_connected, embedding_loaded,
                   openrouter_available, collection_info, made)

\* The body of collection_info (lines 382-397): the HTTPException of line
\* 384 and every exception of get_collection leave as HTTPException(500).
CollectionInfoBody(e) ==
    IF ~Truthy(qdrant_client)
    THEN [status |-> 500, info |-> NoInfo, calls |-> <<>>]
    ELSE IF e.get_collection = "raises"
    THEN [status |-> 500, info |-> NoInfo, calls |-> <<"get_collection">>]
    ELSE [status |-> 200, info |-> Info, calls |-> <<"get_collection">>]

\* The dictionary get_config returns (lines 402-408).
GetConfigBody ==
    [openrouter_available |-> OPENROUTER_API_KEY # "None",
     openrouter_model |-> IF Truthy(OPENROUTER_API_KEY)
                          THEN "OPENROUTER_MODEL" ELSE "No configurado"]

\* The parameter validation FastAPI runs before search_only (lines 332-333).
SearchParamsValid(request) ==
    /\ request.limit >= SearchLimitMin
    /\ request.limit <= SearchLimitMax
    /\ ~request.score_threshold.null
    /\ request.score_threshold.v >= SearchThresholdMin
    /\ request.score_threshold.v <= SearchThresholdMax

\* The validation of the body model RAGRequest (lines 34-38): the types only,
\* Optional[int] and Optional[float] carry no bounds.
RAGRequestValid(request) ==
    /\ request.limit \in Int
    /\ request.score_threshold.null \in BOOLEAN
    /\ request.score_threshold.v \in Int

(* ------------------------------ chunk.py ------------------------------ *)
\* A string is modelled as the sequence of its whitespace-separated words, so
\* that str.split() is the identity on it and " ".join() its inverse; the
\* empty sequence is the empty string, and a missing section_title is the
\* empty string too (section.get('section_title') is falsy for both).
FirstWords(content, n) == SubSeq(content, 1, Min(n, Len(content)))

\* f"{first_words}..." (lines 25-26); the dots are one more token.
SynthTitle(content) == FirstWords(content, 4) \o <<"...">>

\* f"Introduccion - {chapter['chapter_title']}" (line 45).
IntroTitle(chapter_title) == <<"Introduccion", "-">> \o chapter_title

\* load_and_improve_json_data without the backfill.
ImproveSectionNone(section) == section

\* The title backfill of load_and_improve_json_data for one section
\* (lines 23-26).
ImproveSection(section) ==
    IF section.section_title = <<>> /\ section.section_type # "main_content"
    THEN [section EXCEPT !.section_title = SynthTitle(section.content)]
    ELSE section

ImproveChapter(chapter) ==
    [chapter EXCEPT !.sections = [i \in DOMAIN chapter.sections |->
                                     ImproveSection(chapter.sections[i])]]

NoData == [loaded |-> FALSE, chapters |-> <<>>]

\* load_and_improve_json_data (lines 13-31): None when reading or parsing the
\* file raises, the improved document otherwise.
LoadAndImproveJsonData(readable, doc) ==
    IF ~readable
    THEN NoData
    ELSE [loaded |-> TRUE, chapters |-> [i \in DOMAIN doc |-> ImproveChapter(doc[i])]]

\* The section title a chunk gets (lines 43-45).
ChunkTitle(chapter, section) ==
    IF section.section_title = <<>> /\ section.section_type = "main_content"
    THEN IntroTitle(chapter.chapter_title)
    ELSE section.section_title

\* One chunk (lines 47-59); word_count, key_terms, document_title and
\* content_preview are copies of input fields and are left out.
ChunkData(chapter, section) ==
    [content |-> section.content,
     metadata |-> [chapter_number |-> chapter.chapter_number,
                   chapter_title |-> chapter.chapter_title,
                   section_type |-> section.section_type,
                   section_title |-> ChunkTitle(chapter, section)]]

ChapterChunks(chapter) ==
    [i \in DOMAIN chapter.sections |-> ChunkData(chapter, chapter.sections[i])]

RECURSIVE ConcatChunks(_, _)
ConcatChunks(chapters, k) ==
    IF k > Len(chapters) THEN <<>>
    ELSE ChapterChunks(chapters[k]) \o ConcatChunks(chapters, k + 1)

\* extract_chunks_from_json storing the title it computes in the section.
DataAfterExtractWriteBack(structured_data) ==
    [structured_data EXCEPT !.chapters =
        [c \in DOMAIN structured_data.chapters |->
            [structured_data.chapters[c] EXCEPT !.sections =
                [i \in DOMAIN structured_data.chapters[c].sections |->
                    [structured_data.chapters[c].sections[i]
                        EXCEPT !.section_title =
                            ChunkTitle(structured_data.chapters[c],
                                       structured_data.chapters[c].sections[i])]]]]]

\* The document after extract_chunks_from_json ran on it: the function
\* assigns the local section_title (lines 43-45) and the new chunk_data only,
\* never a key of the document.
DataAfterExtract(structured_data) == structured_data

\* extract_chunks_from_json (lines 33-62).
ExtractChunksFromJson(structured_data) ==
    IF ~structured_data.loaded THEN <<>>
    ELSE ConcatChunks(structured_data.chapters, 1)

(* --------------------------- qadrant_loader.py ------------------------- *)
\* The ways the corpus file can be: well-formed; unreadable; not JSON;
\* without the key 'chapters' that load_and_improve_json_data reads; with a
\* section that lacks the key 'metadata', which only
\* extract_chunks_from_json reads (line 54).
LoadFailures == {"unreadable", "malformed_json", "no_chapters_key"}

\* get_chunks (lines 64-79): [] when load_and_improve_json_data returned
\* None; the KeyError of extract_chunks_from_json, which no try block
\* surrounds, leaves get_chunks.
GetChunks(file) ==
    LET climate_data == LoadAndImproveJsonData(file.kind \notin LoadFailures, file.doc)
    IN  IF ~climate_data.loaded
        THEN [raised |-> FALSE, chunks |-> <<>>]
        ELSE IF file.kind = "no_section_metadata"
                /\ \E c \in DOMAIN file.doc : file.doc[c].sections # <<>>
        THEN [raised |-> TRUE, chunks |-> <<>>]
        ELSE [raised |-> FALSE, chunks |-> ExtractChunksFromJson(climate_data)]

\* The vector model.encode gives for a text, told apart by the text only.
Encode(text) == [text |-> text]

\* generate_embedding (embeddig.py lines 13-23): one vector per chunk, in the
\* order of the chunks.
GenerateEmbedding(chunk_list) ==
    [k \in DOMAIN chunk_list |-> Encode(chunk_list[k].content)]

\* The payload of point i (lines 64-69): the chunk's metadata, its content
\* and chunk_id; uploaded_at, the time of the run, is left out.
Payload(chunk, i) ==
    [chapter_number |-> chunk.metadata.chapter_number,
     chapter_title |-> chunk.metadata.chapter_title,
     section_type |-> chunk.metadata.section_type,
     section_title |-> chunk.metadata.section_title,
     content |-> chunk.content,
     chunk_id |-> i]

\* The points list numbered from one.
BuildPointsFromOne(chunk_list, embeddings) ==
    [k \in 1..Min(Len(chunk_list), Len(embeddings)) |->
        [id |-> k, vector |-> embeddings[k], payload |-> Payload(chunk_list[k], k)]]

\* The points list of lines 58-71: enumerate(zip(chunks, embeddings)) numbers
\* the pairs from 0.
BuildPoints(chunk_list, embeddings) ==
    [k \in 1..Min(Len(chunk_list), Len(embeddings)) |->
        [id |-> k - 1, vector |-> embeddings[k],
         payload |-> Payload(chunk_list[k], k - 1)]]

NoCollection == [exists |-> FALSE, stored |-> <<>>]

\* What create_collection leaves (lines 44-47).
EmptyCollection == [exists |-> TRUE, stored |-> <<>>]

\* What the index stores after upsert(points=pts) (lines 74-77): a point
\* whose id is stored already is overwritten, the others stay.
Upsert(stored, pts) ==
    LET ids == {pts[k].id : k \in DOMAIN pts}
        Last(id) == CHOOSE k \in DOMAIN pts :
                        /\ pts[k].id = id
                        /\ \A j \in DOMAIN pts : pts[j].id = id => j <= k
    IN  [id \in (DOMAIN stored) \cup ids |->
            IF id \in ids
            THEN [vector |-> pts[Last(id)].vector, payload |-> pts[Last(id)].payload]
            ELSE stored[id]]

\* Step 4 with the commented lines 41-42 active and a creation after them.
EnsureCollectionFresh(c, outcome) ==
    IF outcome = "exists_raises"
    THEN [ok |-> FALSE, calls |-> <<"collection_exists">>, coll |-> c]
    ELSE IF c.exists
    THEN [ok |-> TRUE,
          calls |-> <<"collection_exists", "delete_collection", "create_collection">>,
          coll |-> EmptyCollection]
    ELSE IF outcome = "create_raises"
    THEN [ok |-> FALSE, calls |-> <<"collection_exists", "create_collection">>, coll |-> c]
    ELSE [ok |-> TRUE, calls |-> <<"collection_exists", "create_collection">>,
          coll |-> EmptyCollection]

\* Step 4 (lines 33-53): collection_exists, then create_collection when the
\* collection is absent; an exception of either ends the run.
EnsureCollection(c, outcome) ==
    IF outcome = "exists_raises"
    THEN [ok |-> FALSE, calls |-> <<"collection_exists">>, coll |-> c]
    ELSE IF c.exists
    THEN [ok |-> TRUE, calls |-> <<"collection_exists">>, coll |-> c]
    ELSE IF outcome = "create_raises"
    THEN [ok |-> FALSE, calls |-> <<"collection_exists", "create_collection">>, coll |-> c]
    ELSE [ok |-> TRUE, calls |-> <<"collection_exists", "create_collection">>,
          coll |-> EmptyCollection]

\* The upsert of step 5 going on to return the pair when upsert raised.
UpsertStepIgnoringFailure(c, pts, outcome) ==
    IF outcome = "raises"
    THEN [ok |-> TRUE, calls |-> <<"upsert">>, coll |-> c]
    ELSE [ok |-> TRUE, calls |-> <<"upsert">>,
          coll |-> [c EXCEPT !.stored = Upsert(c.stored, pts)]]

\* The upsert of step 5 (lines 73-81): one call with the whole list; a call
\* that raises stores nothing.
UpsertStep(c, pts, outcome) ==
    IF outcome = "raises"
    THEN [ok |-> FALSE, calls |-> <<"upsert">>, coll |-> c]
    ELSE [ok |-> TRUE, calls |-> <<"upsert">>,
          coll |-> [c EXCEPT !.stored = Upsert(c.stored, pts)]]

\* What a run ends with: returned is "pair" for (qdrant, model), "None" for
\* (None, None), "raised" for an exception that leaves the function.
RunEnd(returned, chunk_list, made, pts, c) ==
    [returned |-> returned, chunks |-> chunk_list, calls |-> made, points |-> pts, coll |-> c]

\* setup_qdrant_collection_improved (lines 17-83) on the corpus file, with
\* the collection c in the index and the environment's behaviour e.
\* generate_embedding (line 28) is outside every try block.
SetupQdrantCollectionImproved(file, c, e) ==
    LET got == GetChunks(file)
    IN  IF got.raised
        THEN RunEnd("raised", <<>>, <<>>, <<>>, c)
        ELSE IF got.chunks = <<>>
        THEN RunEnd("None", <<>>, <<>>, <<>>, c)
        ELSE IF e.embed = "raises"
        THEN RunEnd("raised", got.chunks, <<"embed">>, <<>>, c)
        ELSE LET embeddings == GenerateEmbedding(got.chunks)
                 step4 == EnsureCollection(c, e.connect)
             IN  IF ~step4.ok
                 THEN RunEnd("None", got.chunks, <<"embed">> \o step4.calls, <<>>, step4.coll)
                 ELSE LET pts == BuildPoints(got.chunks, embeddings)
                          step5 == UpsertStep(step4.coll, pts, e.upsert)
                      IN  RunEnd(IF step5.ok THEN "pair" ELSE "None", got.chunks,
                                 <<"embed">> \o step4.calls \o step5.calls, pts, step5.coll)

(* ------------------------------ query_rag.py --------------------------- *)
\* The name connect_to_existing_qdrant checks (line 27).
CheckedCollection == "documentos_clima"

\* connect_to_existing_qdrant (lines 17-31) with the collections the index
\* holds: "raised" when a constructor or collection_exists raises, "None" for
\* (None, None), "pair" for (qdrant, model).
ConnectToExistingQdrant(collections, outcome) ==
    IF outcome = "raises" THEN "raised"
    ELSE IF CheckedCollection \notin collections THEN "None"
    ELSE "pair"

\* search_improved (lines 33-43) with the default collection_name, as
\* interactive_search calls it on line 84: query_points raises for a
\* collection the index does not hold.
SearchImproved(collection_name, collections, e) ==
    IF e.embed = "raises" THEN [raised |-> TRUE, results |-> 0]
    ELSE IF collection_name \notin collections \/ e.index = "raises"
    THEN [raised |-> TRUE, results |-> 0]
    ELSE [raised |-> FALSE, results |-> e.found]

\* What one turn of the loop of interactive_search prints (lines 60-112).
Turn(command, collection_name, collections, e) ==
    IF command = "salir" THEN "bye"
    ELSE IF command = "estado"
    THEN IF collection_name \in collections /\ e.index = "ok"
         THEN "stats" ELSE "stats_error"
    ELSE IF command = "" THEN "skipped"
    ELSE LET r == SearchImproved(collection_name, collections, e)
         IN  IF r.raised THEN "search_error"
             ELSE IF r.results = 0 THEN "no_results"
             ELSE "results"

(* ------------------------------- inputs -------------------------------- *)
Section(type, title, content) ==
    [section_type |-> type, section_title |-> title, content |-> content]

\* Sections with and without a title, of both kinds, with contents of no
\* word, of fewer than four words and of more than four.
SectionInputs ==
    {Section("main_content", <<>>, <<"Greenhouse", "gases", "trap", "heat", "in">>),
     Section("main_content", <<"Overview">>, <<"CO2">>),
     Section("note", <<"Key", "Fact">>, <<"Greenhouse", "gases", "trap", "heat", "in">>),
     Section("note", <<>>, <<"Greenhouse", "gases", "trap", "heat", "in">>),
     Section("note", <<>>, <<"CO2">>),
     Section("note", <<>>, <<>>)}

RECURSIVE SectionSeqs(_)
SectionSeqs(k) ==
    IF k = 0 THEN {<<>>}
    ELSE {Append(q, x) : q \in SectionSeqs(k - 1), x \in SectionInputs}

\* The section lists of documents of at most c chapters and s sections.
RECURSIVE SectionLists(_, _)
SectionLists(c, s) ==
    IF c = 0 THEN {<<>>}
    ELSE {<<>>} \cup UNION {{<<first>> \o rest : first \in SectionSeqs(k),
                                        rest \in SectionLists(c - 1, s - k)} : k \in 0..s}

ChapterTitles == <<<<"Ch1">>, <<"Climate", "Basics">>, <<"Ch3">>, <<"Ch4">>>>

\* Chapter i of a document: its number, its title, its sections.
Chapter(i, sections) ==
    [chapter_number |-> i,
     chapter_title |-> ChapterTitles[((i - 1) % Len(ChapterTitles)) + 1],
     sections |-> sections]

Documents ==
    {[i \in DOMAIN l |-> Chapter(i, l[i])] : l \in SectionLists(MaxChapters, MaxSections)}

\* The sections of the corpora the ingestion runs read: a main_content
\* section and a note, both without a title.
IngestSections ==
    {Section("main_content", <<>>, <<"Greenhouse", "gases", "trap", "heat", "in">>),
     Section("note", <<>>, <<"CO2">>)}

RECURSIVE IngestSectionSeqs(_)
IngestSectionSeqs(k) ==
    IF k = 0 THEN {<<>>}
    ELSE {Append(q, x) : q \in IngestSectionSeqs(k - 1), x \in IngestSections}

\* Corpora of no chapter and of one chapter of at most MaxSections sections.
IngestDocuments ==
    {<<>>} \cup {<<Chapter(1, q)>> : q \in UNION {IngestSectionSeqs(k) : k \in 0..MaxSections}}

File(kind, doc) == [kind |-> kind, doc |-> doc]

\* The corpus files of the runs.
IngestFiles ==
    {File("ok", d) : d \in IngestDocuments}
    \cup {File(k, <<>>) : k \in LoadFailures}
    \cup {File("no_section_metadata", <<Chapter(1, q)>>) : q \in IngestSectionSeqs(1)}

\* What the embedding model and the index do during one run.
IngestEnvs ==
    {[embed |-> "raises", connect |-> "ok", upsert |-> "ok"]}
    \cup {[embed |-> "ok", connect |-> c, upsert |-> "ok"] :
              c \in {"exists_raises", "create_raises"}}
    \cup {[embed |-> "ok", connect |-> "ok", upsert |-> u] : u \in {"ok", "raises"}}

NoRun ==
    [returned |-> "idle", file |-> File("ok", <<>>),
     env |-> [embed |-> "ok", connect |-> "ok", upsert |-> "ok"],
     chunks |-> <<>>, calls |-> <<>>, points |-> <<>>, before |-> NoCollection]

IngestIdleInit == coll = NoCollection /\ run = NoRun

\* Collection names: the one query_rag.py checks and two others.
CollectionNames == {"documentos_clima", "clima_v2", "pruebas"}

Commands == {"salir", "estado", "", "question"}

\* What the embedding model and the index do during one turn.
TurnEnvs == [embed : {"ok", "raises"}, index : {"ok", "raises"}, found : 0..1]

ToolOff ==
    [pc |-> "off", COLLECTION_NAME |-> "documentos_clima", collections |-> {},
     connected |-> "pending", command |-> "", printed |-> "nothing"]

ToolIdleInit == tool = ToolOff

Keys == {"None", "", "sk-key"}

LimitInputs == (0..MaxLimit) \cup {SearchLimitMax + 1}

ThresholdInputs == {-3, 0, 5, SearchThresholdMax, SearchThresholdMax + 1}

\* What the embedding provider and the index do during one request.
Envs(limit) ==
    {[embed |-> "raises", query |-> "ok", raw |-> <<>>]}
    \cup {[embed |-> "ok", query |-> "raises", raw |-> <<>>]}
    \cup {[embed |-> "ok", query |-> "ok", raw |-> r] : r \in RawResults(limit)}

\* What the provider does during one request; a request that cannot reach the
\* call meets no provider behaviour worth telling apart.
GenEnvs(request) ==
    IF request.use_llm /\ Truthy(OPENROUTER_API_KEY) THEN GenOutcomes ELSE {"ok"}

\* What the index does during one /health request.  A collection that holds
\* points is listed whenever get_collections answers; get_collection of a
\* collection that is not there raises.
HealthEnvs ==
    {[get_collections |-> "raises", get_collection |-> "not_called"]}
    \cup {[get_collections |-> "listed", get_collection |-> g] : g \in {"ok", "raises"}}
    \cup (IF points = {}
          THEN {[get_collections |-> "not_listed", get_collection |-> "raises"]}
          ELSE {})

\* What the index does during one /collection/info request.
InfoEnvs ==
    {[get_collections |-> "not_called", get_collection |-> g] : g \in {"ok", "raises"}}

\* The index behaviour a /health or /collection/info request met.
IndexMet(made, e) ==
    [get_collections |-> IF Called(made, "get_collections")
                         THEN e.get_collections ELSE "not_called",
     get_collection |-> IF Called(made, "get_collection")
                        THEN e.get_collection ELSE "not_called"]

\* A request without parameters.
Get(endpoint) ==
    [endpoint |-> endpoint, limit |-> 0, score_threshold |-> Threshold(0), use_llm |-> FALSE]

NoReq == [endpoint |-> "none", limit |-> 0, score_threshold |-> Threshold(0), use_llm |-> FALSE]
NoExt == [embed |-> "not_called", query |-> "not_called", gen |-> "not_called"]
NoResp == Response(0, <<>>, "None")

\* The external behaviour a request met, as far as the request made the calls.
Met(made, e, g) ==
    [embed |-> IF Called(made, "embed") THEN e.embed ELSE "not_called",
     query |-> IF Called(made, "query") THEN e.query ELSE "not_called",
     gen   |-> IF Called(made, "generate") THEN g ELSE "not_called"]

RawMet(made, e) == IF Called(made, "query") /\ e.query = "ok" THEN e.raw ELSE <<>>

AnsIdle == [key |-> "None", outcome |-> "ok", context |-> <<>>]
AnsPending == [raised |-> FALSE, value |-> "pending", posted |-> FALSE]

ApiIdle ==
    /\ proc = "serving"
    /\ init_result = "none"
    /\ qdrant_client = "None"
    /\ embedding_model = "None"
    /\ OPENROUTER_API_KEY = "None"
    /\ points = {}
    /\ req = NoReq
    /\ ext = NoExt
    /\ raw = <<>>
    /\ calls = <<>>
    /\ resp = NoResp

AnsIdleInit == ans_in = AnsIdle /\ ans_out = AnsPending

LoaderIdleInit ==
    /\ phase = "idle"
    /\ json_doc = <<>>
    /\ data = NoData
    /\ chunks = <<>>
    /\ first_chunks = <<>>

(* ------------------------------- actions ------------------------------- *)
Init ==
    /\ proc \in {"main", "uvicorn_starting"}
    /\ init_result = "none"
    /\ qdrant_client = "None"
    /\ embedding_model = "None"
    /\ OPENROUTER_API_KEY \in Keys
    /\ \E n \in 0..MaxPoints : points = 1..n
    /\ req = NoReq
    /\ ext = NoExt
    /\ raw = <<>>
    /\ calls = <<>>
    /\ resp = NoResp
    /\ AnsIdleInit
    /\ LoaderIdleInit
    /\ IngestIdleInit
    /\ ToolIdleInit

\* The __main__ block (lines 410-422).  Its initialize_services() sets the
\* globals of the __main__ module; uvicorn.run("api_rag_fastapi:app", ...)
\* serves a fresh import of the module, whose globals start as None.
MainEntry ==
    /\ proc = "main"
    /\ \E o \in InitOutcomes :
        /\ init_result' = InitResult(o)
        /\ proc' = MainNext(InitReturn(o))
    /\ UNCHANGED <<qdrant_client, embedding_model, OPENROUTER_API_KEY, points,
                   req, ext, raw, calls, resp, ansVars, loaderVars, ingestVars, toolVars>>

\* startup_event (lines 91-96).
StartupEvent ==
    /\ proc = "uvicorn_starting"
    /\ \E o \in InitOutcomes :
        /\ qdrant_client' = InitClient(o, qdrant_client)
        /\ embedding_model' = InitModel(o, embedding_model)
        /\ init_result' = InitResult(o)
    /\ proc' = "serving"
    /\ UNCHANGED <<OPENROUTER_API_KEY, points, req, ext, raw, calls, resp,
                   ansVars, loaderVars, ingestVars, toolVars>>

\* POST /search.
SearchOnly ==
    /\ proc = "serving"
    /\ req = NoReq
    /\ \E limit \in LimitInputs, t \in ThresholdInputs :
        LET request == [endpoint |-> "search", limit |-> limit,
                        score_threshold |-> Threshold(t), use_llm |-> FALSE]
        IN  /\ req' = request
            /\ IF ~SearchParamsValid(request)
               THEN /\ resp' = Response(422, <<>>, "None")
                    /\ calls' = <<>>
                    /\ ext' = NoExt
                    /\ raw' = <<>>
               ELSE \E e \in Envs(limit) :
                    LET out == SearchOnlyBody(request, e)
                    IN  /\ resp' = Response(HandlerStatus(out.kind, out.status),
                                            out.results, out.answer)
                        /\ calls' = out.calls
                        /\ ext' = Met(out.calls, e, "not_called")
                        /\ raw' = RawMet(out.calls, e)
    /\ UNCHANGED <<proc, init_result, qdrant_client, embedding_model,
                   OPENROUTER_API_KEY, points, ansVars, loaderVars, ingestVars, toolVars>>

\* POST /query.
RagQuery ==
    /\ proc = "serving"
    /\ req = NoReq
    /\ \E limit \in LimitInputs,
          th \in {Threshold(t) : t \in ThresholdInputs} \cup {NullThreshold},
          use_llm \in BOOLEAN :
        LET request == [endpoint |-> "query", limit |-> limit,
                        score_threshold |-> th, use_llm |-> use_llm]
        IN  /\ req' = request
            /\ IF ~RAGRequestValid(request)
               THEN /\ resp' = Response(422, <<>>, "None")
                    /\ calls' = <<>>
                    /\ ext' = NoExt
                    /\ raw' = <<>>
               ELSE \E e0 \in Envs(limit), g \in GenEnvs(request) :
                    LET e == [embed |-> e0.embed, query |-> e0.query, raw |-> e0.raw, gen |-> g]
                        out == RagQueryBody(request, e)
                    IN  /\ resp' = IF out.kind = "return"
                                   THEN RAGResponse(out.results, out.answer)
                                   ELSE Response(HandlerStatus(out.kind, out.status),
                                                 out.results, out.answer)
                        /\ calls' = out.calls
                        /\ ext' = Met(out.calls, e, g)
                        /\ raw' = RawMet(out.calls, e)
    /\ UNCHANGED <<proc, init_result, qdrant_client, embedding_model,
                   OPENROUTER_API_KEY, points, ansVars, loaderVars, ingestVars, toolVars>>

\* GET /health.
HealthCheck ==
    /\ proc = "serving"
    /\ req = NoReq
    /\ req' = Get("health")
    /\ \E e \in HealthEnvs :
        LET body == HealthCheckBody(e)
        IN  /\ resp' = [status |-> 200, body |-> body]
            /\ calls' = body.calls
            /\ ext' = IndexMet(body.calls, e)
    /\ raw' = <<>>
    /\ UNCHANGED <<proc, init_result, qdrant_client, embedding_model,
                   OPENROUTER_API_KEY, points, ansVars, loaderVars, ingestVars, toolVars>>

\* GET /collection/info.
CollectionInfo ==
    /\ proc = "serving"
    /\ req = NoReq
    /\ req' = Get("collection_info")
    /\ \E e \in InfoEnvs :
        LET out == CollectionInfoBody(e)
        IN  /\ resp' = [status |-> out.status, body |-> out.info]
            /\ calls' = out.calls
            /\ ext' = IndexMet(out.calls, e)
    /\ raw' = <<>>
    /\ UNCHANGED <<proc, init_result, qdrant_client, embedding_model,
                   OPENROUTER_API_KEY, points, ansVars, loaderVars, ingestVars, toolVars>>

\* GET /config.
GetConfig ==
    /\ proc = "serving"
    /\ req = NoReq
    /\ req' = Get("config")
    /\ resp' = [status |-> 200, body |-> GetConfigBody]
    /\ calls' = <<>>
    /\ ext' = NoExt
    /\ raw' = <<>>
    /\ UNCHANGED <<proc, init_result, qdrant_client, embedding_model,
                   OPENROUTER_API_KEY, points, ansVars, loaderVars, ingestVars, toolVars>>

\* The response leaves; the process waits for the next request.
ResponseSent ==
    /\ proc = "serving"
    /\ req # NoReq
    /\ req' = NoReq
    /\ ext' = NoExt
    /\ raw' = <<>>
    /\ calls' = <<>>
    /\ resp' = NoResp
    /\ UNCHANGED <<proc, init_result, qdrant_client, embedding_model,
                   OPENROUTER_API_KEY, points, ansVars, loaderVars, ingestVars, toolVars>>

(* --------------------- a direct call of the generator ------------------ *)
AnswerInit ==
    /\ ApiIdle
    /\ LoaderIdleInit
    /\ IngestIdleInit
    /\ ToolIdleInit
    /\ ans_out = AnsPending
    /\ ans_in \in [key : Keys, outcome : GenOutcomes,
                   context : {FormatResults(r) :
                       r \in UNION {[1..k -> [id : 1..MaxPoints, score : Scores]] : k \in 0..1}}]

\* generate_llm_answer(question, context_chunks).
AnswerCall ==
    /\ ans_out = AnsPending
    /\ ans_out' = GenerateLLMAnswer(ans_in.key, ans_in.context, ans_in.outcome)
    /\ UNCHANGED <<apiVars, ans_in, loaderVars, ingestVars, toolVars>>

AnswerNext == AnswerCall

SpecAnswer == AnswerInit /\ [][AnswerNext]_vars

(* --------------------------- the corpus loader ------------------------- *)
LoaderInit ==
    /\ ApiIdle
    /\ AnsIdleInit
    /\ IngestIdleInit
    /\ ToolIdleInit
    /\ phase = "start"
    /\ json_doc \in Documents
    /\ data = NoData
    /\ chunks = <<>>
    /\ first_chunks = <<>>

\* get_chunks, first half: load_and_improve_json_data(JSON_DATA_PATH).
Load ==
    /\ phase = "start"
    /\ \E readable \in BOOLEAN : data' = LoadAndImproveJsonData(readable, json_doc)
    /\ phase' = "loaded"
    /\ UNCHANGED <<apiVars, ansVars, json_doc, chunks, first_chunks, ingestVars, toolVars>>

\* get_chunks, second half: [] for a failed load, extract_chunks_from_json
\* otherwise.
Extract ==
    /\ phase = "loaded"
    /\ chunks' = IF ~data.loaded THEN <<>> ELSE ExtractChunksFromJson(data)
    /\ data' = IF ~data.loaded THEN data ELSE DataAfterExtract(data)
    /\ phase' = "extracted"
    /\ UNCHANGED <<apiVars, ansVars, json_doc, first_chunks, ingestVars, toolVars>>

\* extract_chunks_from_json once more, on the document the first run used.
ExtractAgain ==
    /\ phase = "extracted"
    /\ data.loaded
    /\ first_chunks' = chunks
    /\ chunks' = ExtractChunksFromJson(data)
    /\ data' = DataAfterExtract(data)
    /\ phase' = "extracted_again"
    /\ UNCHANGED <<apiVars, ansVars, json_doc, ingestVars, toolVars>>

LoaderNext ==
    \/ Load
    \/ Extract
    \/ ExtractAgain

SpecLoader == LoaderInit /\ [][LoaderNext]_vars

(* --------------------------- the ingestion runs ------------------------ *)
IngestInit ==
    /\ ApiIdle
    /\ AnsIdleInit
    /\ LoaderIdleInit
    /\ coll \in {NoCollection, EmptyCollection}
    /\ run = NoRun
    /\ ToolIdleInit

\* One run of qadrant_loader.py (lines 85-88), no other run going on.
IngestRun ==
    /\ run.returned = "idle"
    /\ \E file \in IngestFiles, e \in IngestEnvs :
        LET out == SetupQdrantCollectionImproved(file, coll, e)
        IN  /\ coll' = out.coll
            /\ run' = [returned |-> out.returned, file |-> file, env |-> e,
                       chunks |-> out.chunks, calls |-> out.calls,
                       points |-> out.points, before |-> coll]
    /\ UNCHANGED <<apiVars, ansVars, loaderVars, toolVars>>

\* The process of the run ends; the index keeps what it stores.
IngestExit ==
    /\ run.returned # "idle"
    /\ run' = NoRun
    /\ UNCHANGED <<apiVars, ansVars, loaderVars, coll, toolVars>>

IngestNext ==
    \/ IngestRun
    \/ IngestExit

SpecIngest == IngestInit /\ [][IngestNext]_vars

(* --------------------------- the query tool --------------------------- *)
ToolInit ==
    /\ ApiIdle
    /\ AnsIdleInit
    /\ LoaderIdleInit
    /\ IngestIdleInit
    /\ \E name \in CollectionNames, held \in SUBSET CollectionNames :
        tool = [ToolOff EXCEPT !.pc = "start", !.COLLECTION_NAME = name,
                               !.collections = held]

\* interactive_search up to its loop (lines 47-58).
ToolConnect ==
    /\ tool.pc = "start"
    /\ \E outcome \in {"ok", "raises"} :
        LET got == ConnectToExistingQdrant(tool.collections, outcome)
        IN  tool' = [tool EXCEPT !.connected = got,
                                 !.pc = IF got = "pair" THEN "menu" ELSE "exited"]
    /\ UNCHANGED <<apiVars, ansVars, loaderVars, ingestVars>>

\* One turn of the loop (lines 60-112).
ToolTurn ==
    /\ tool.pc = "menu"
    /\ \E command \in Commands, e \in TurnEnvs :
        LET printed == Turn(command, tool.COLLECTION_NAME, tool.collections, e)
        IN  tool' = [tool EXCEPT !.command = command, !.printed = printed,
                                 !.pc = IF printed = "bye" THEN "exited" ELSE "menu"]
    /\ UNCHANGED <<apiVars, ansVars, loaderVars, ingestVars>>

ToolNext ==
    \/ ToolConnect
    \/ ToolTurn

SpecTool == ToolInit /\ [][ToolNext]_vars

Next ==
    \/ MainEntry
    \/ StartupEvent
    \/ SearchOnly
    \/ RagQuery
    \/ HealthCheck
    \/ CollectionInfo
    \/ GetConfig
    \/ ResponseSent

Spec == Init /\ [][Next]_vars

(* ============================== claims ================================= *)
\* A search or query request was answered.
Answered == req.endpoint \in {"search", "query"} /\ resp.status # 0

\* The index call of the request returned.
Retrieved == Answered /\ ext.query = "ok"

\* The scores of a sequence never increase.
Descending(q) == \A i, j \in DOMAIN q : i < j => q[i].score >= q[j].score

\* Result j of the response is point i of what the index returned.
SamePoint(j, i) ==
    /\ resp.results[j].content = raw[i].id
    /\ resp.results[j].score = raw[i].score

\* C1 as stated, for the limits and thresholds the interface admits: a
\* successful retrieval returns at most limit results and no result whose
\* score is below the threshold, for every threshold, 0 included, and whatever
\* scores the index returns.
C1_AtMostNAndNoneBelow ==
    (Answered /\ resp.status = 200 /\ SearchParamsValid(req)) =>
        /\ Len(resp.results) <= req.limit
        /\ \A j \in DOMAIN resp.results :
               resp.results[j].score >= req.score_threshold.v

\* C1 as amended: a successful retrieval returns at most limit results and,
\* when the threshold is positive, no result whose score is below it; with a
\* threshold of 0 nothing is filtered, so a negative score is returned.
C1_AtMostNAndNoneBelowPositive ==
    (Answered /\ resp.status = 200) =>
        /\ Len(resp.results) <= req.limit
        /\ req.score_threshold.v > 0 =>
               \A j \in DOMAIN resp.results :
                   resp.results[j].score >= req.score_threshold.v

\* C1 witness: a positive threshold removed a result and kept another.
C1_Witness ==
    /\ Answered
    /\ resp.status = 200
    /\ req.score_threshold.v > 0
    /\ Len(resp.results) < Len(raw)
    /\ Len(resp.results) = req.limit - 1

\* C2: with a positive threshold the returned results are exactly the index
\* results whose score is at least the threshold; with a threshold of 0 the
\* index results are returned as they are, whatever their scores.
C2_FilterExactZeroDisables ==
    (Retrieved /\ resp.status \in {200, 404} /\ ~req.score_threshold.null) =>
        LET t == req.score_threshold.v
        IN  /\ t > 0 =>
                /\ \A i \in DOMAIN raw :
                       raw[i].score >= t <=> \E j \in DOMAIN resp.results : SamePoint(j, i)
                /\ \A j \in DOMAIN resp.results : \E i \in DOMAIN raw : SamePoint(j, i)
                /\ Len(resp.results) = Cardinality({i \in DOMAIN raw : raw[i].score >= t})
            /\ t = 0 =>
                /\ Len(resp.results) = Len(raw)
                /\ \A i \in DOMAIN raw : SamePoint(i, i)

\* C2 witness: a threshold of 0 and a result with a negative score, returned.
C2_Witness ==
    /\ Retrieved
    /\ resp.status = 200
    /\ ~req.score_threshold.null
    /\ req.score_threshold.v = 0
    /\ \E j \in DOMAIN resp.results : resp.results[j].score < 0

\* C3: the returned results are a subsequence of the index results, in the
\* same order; so they are in descending score order when the index results
\* are.
C3_SubsequenceSameOrder ==
    (Retrieved /\ resp.status = 200) =>
        /\ \E f \in [DOMAIN resp.results -> DOMAIN raw] :
               /\ \A j, k \in DOMAIN resp.results : j < k => f[j] < f[k]
               /\ \A j \in DOMAIN resp.results : SamePoint(j, f[j])
        /\ Descending(raw) => Descending(resp.results)

\* C3 witness: two results of different scores returned in the index's
\* descending order, after the filter ran.
C3_Witness ==
    /\ Retrieved
    /\ resp.status = 200
    /\ req.score_threshold.v > 0
    /\ Len(resp.results) >= 2
    /\ Descending(raw)
    /\ resp.results[1].score > resp.results[2].score

\* C4: an empty result set, the index returning nothing or nothing surviving
\* the threshold, is answered 404, not 500; a 200 carries a non-empty list.
C4_EmptyIsNotFound ==
    /\ (/\ Retrieved
        /\ \/ raw = <<>>
           \/ /\ ~req.score_threshold.null
              /\ req.score_threshold.v > 0
              /\ \A i \in DOMAIN raw : raw[i].score < req.score_threshold.v)
       => resp.status = 404
    /\ (Answered /\ resp.status = 200) => resp.results # <<>>

\* C4 witness: the index returned points and none survived the threshold.
C4_Witness ==
    /\ Retrieved
    /\ raw # <<>>
    /\ \A i \in DOMAIN raw : raw[i].score < req.score_threshold.v
    /\ resp.status = 404

\* C5: generate_llm_answer never raises; it returns a text exactly when a key
\* is configured and the provider call succeeds with a well-formed body, and
\* None in every other case.
C5_AnswerTextOrAbsent ==
    ans_out # AnsPending =>
        /\ ~ans_out.raised
        /\ ans_out.value \in {"None", "text"}
        /\ ans_out.value = "text" <=> (Truthy(ans_in.key) /\ ans_in.outcome = "ok")

\* C5 witness: a key is configured, the provider call timed out, None came
\* back.
C5_Witness ==
    /\ ans_out # AnsPending
    /\ Truthy(ans_in.key)
    /\ ans_in.outcome = "timeout"
    /\ ans_out.posted
    /\ ans_out.value = "None"

\* The index results that pass the threshold filter of a request.
Surviving ==
    {i \in DOMAIN raw : req.score_threshold.v > 0 => raw[i].score >= req.score_threshold.v}

\* C6: when retrieval yields a non-empty filtered list, /query answers 200
\* with all of it, whatever the generator does; the answer is absent when the
\* generator is disabled, unconfigured or fails.
C6_GeneratorNeverFailsQuery ==
    (/\ Retrieved
     /\ req.endpoint = "query"
     /\ ~req.score_threshold.null
     /\ Surviving # {}) =>
        /\ resp.status = 200
        /\ Len(resp.results) = Cardinality(Surviving)
        /\ \A j \in DOMAIN resp.results : \E i \in Surviving : SamePoint(j, i)
        /\ (~req.use_llm \/ ~Truthy(OPENROUTER_API_KEY) \/ ext.gen # "ok")
               => resp.answer = "None"
        /\ (req.use_llm /\ Truthy(OPENROUTER_API_KEY) /\ ext.gen = "ok")
               => resp.answer = "text"

\* C6 witness: the generator was called and failed, the request succeeded
\* without an answer.
C6_Witness ==
    /\ Retrieved
    /\ req.endpoint = "query"
    /\ Called(calls, "generate")
    /\ ext.gen \in {"timeout", "request_exception", "status_non200", "malformed_body"}
    /\ resp.status = 200
    /\ resp.results # <<>>
    /\ resp.answer = "None"

\* The parameters the interface admits: a positive limit, at most 20 on
\* /search, and a threshold in [0, 1].
ParamsInRange ==
    /\ req.limit >= 1
    /\ req.endpoint = "search" => req.limit <= SearchLimitMax
    /\ ~req.score_threshold.null
    /\ req.score_threshold.v >= 0
    /\ req.score_threshold.v <= SearchThresholdMax

\* C7: a request of /search or /query whose limit or score_threshold is out
\* of range or null is rejected before any external call is made.
C7_ValidationBeforeExternalCalls ==
    (Answered /\ ~ParamsInRange) => calls = <<>>

\* C8: when a service is not initialized or the embedding or index call
\* raises, the request ends with a 500: not a 404, no results, no generator
\* call.
C8_UpstreamFailureIs500 ==
    (/\ Answered
     /\ resp.status # 422
     /\ \/ ~Truthy(qdrant_client)
        \/ ~Truthy(embedding_model)
        \/ ext.embed = "raises"
        \/ ext.query = "raises") =>
        /\ resp.status = 500
        /\ resp.results = <<>>
        /\ resp.answer = "None"
        /\ ~Called(calls, "generate")

\* C8 witness: a /query that asks for an answer, with a key configured, whose
\* index call raised.
C8_Witness ==
    /\ Answered
    /\ req.endpoint = "query"
    /\ req.use_llm
    /\ Truthy(OPENROUTER_API_KEY)
    /\ ext.query = "raises"
    /\ resp.status = 500

\* C9: on every start path a failed initialization leaves the service
\* starting or serving; the process never gives up.
C9_DegradedOnEveryStartPath == init_result = "failed" => proc # "exited"

\* The places <<chapter, section>> of the sections of a document, in
\* document order.
RECURSIVE Places(_, _)
Places(doc, c) ==
    IF c > Len(doc) THEN <<>>
    ELSE [i \in DOMAIN doc[c].sections |-> <<c, i>>] \o Places(doc, c + 1)

\* C10: after loading, flatten gives every chunk a non-empty section title:
\* an explicit title is kept, a title-less main_content section is titled
\* "Introduccion - <chapter title>", any other title-less section is titled
\* with the first words of its content; each chunk carries the number and the
\* title of its own chapter.
C10_EveryChunkTitled ==
    (phase = "extracted" /\ data.loaded) =>
        LET at == Places(json_doc, 1)
        IN  /\ Len(chunks) = Len(at)
            /\ \A i \in DOMAIN at :
                LET chapter == json_doc[at[i][1]]
                    section == chapter.sections[at[i][2]]
                    title == chunks[i].metadata.section_title
                IN  /\ title # <<>>
                    /\ section.section_title # <<>> => title = section.section_title
                    /\ (section.section_title = <<>> /\ section.section_type = "main_content")
                           => title = <<"Introduccion", "-">> \o chapter.chapter_title
                    /\ (section.section_title = <<>> /\ section.section_type # "main_content")
                           => /\ Len(title) >= 1
                              /\ Len(title) - 1 <= Len(section.content)
                              /\ Len(title) - 1 = Min(4, Len(section.content))
                              /\ \A k \in 1..(Len(title) - 1) : title[k] = section.content[k]
                    /\ chunks[i].metadata.chapter_number = chapter.chapter_number
                    /\ chunks[i].metadata.chapter_title = chapter.chapter_title

\* C10 witness: the chunks of a document of two chapters whose sections are a
\* title-less main_content section, a titled note and a title-less note of
\* more than four words.
C10_Witness ==
    /\ phase = "extracted"
    /\ data.loaded
    /\ Len(json_doc) = 2
    /\ Len(chunks) = 3
    /\ \E i \in DOMAIN chunks :
           /\ chunks[i].metadata.section_type = "main_content"
           /\ chunks[i].metadata.section_title = <<"Introduccion", "-", "Ch1">>
    /\ \E i \in DOMAIN chunks : chunks[i].metadata.section_title = <<"Key", "Fact">>
    /\ \E i \in DOMAIN chunks :
           /\ chunks[i].metadata.chapter_number = 2
           /\ chunks[i].metadata.section_title = <<"Greenhouse", "gases", "trap", "heat", "...">>

\* The document load_and_improve_json_data returns for the file: the file's
\* sections, a title-less section other than main_content carrying a title.
SameDocumentAsLoaded ==
    /\ Len(data.chapters) = Len(json_doc)
    /\ \A c \in DOMAIN json_doc :
        /\ data.chapters[c].chapter_number = json_doc[c].chapter_number
        /\ data.chapters[c].chapter_title = json_doc[c].chapter_title
        /\ Len(data.chapters[c].sections) = Len(json_doc[c].sections)
        /\ \A i \in DOMAIN json_doc[c].sections :
            LET was == json_doc[c].sections[i]
                is == data.chapters[c].sections[i]
            IN  /\ is.content = was.content
                /\ is.section_type = was.section_type
                /\ (was.section_title # <<>> \/ was.section_type = "main_content")
                       => is.section_title = was.section_title

\* C11: flatten gives one chunk per section, in document order (no dedup, no
\* splitting); run again on the same loaded document it gives the same chunks
\* and leaves the document as it was.
C11_OnePerSectionIdempotent ==
    (phase \in {"extracted", "extracted_again"} /\ data.loaded) =>
        LET at == Places(json_doc, 1)
        IN  /\ Len(chunks) = Len(at)
            /\ \A i \in DOMAIN at :
                LET chapter == json_doc[at[i][1]]
                    section == chapter.sections[at[i][2]]
                IN  /\ chunks[i].content = section.content
                    /\ chunks[i].metadata.section_type = section.section_type
                    /\ chunks[i].metadata.chapter_number = chapter.chapter_number
            /\ SameDocumentAsLoaded
            /\ phase = "extracted_again" => chunks = first_chunks

\* C11 witness: a second run over a document of two chapters that holds the
\* same section twice and a title-less main_content section.
C11_Witness ==
    /\ phase = "extracted_again"
    /\ Len(json_doc) = 2
    /\ Len(chunks) = 3
    /\ chunks = first_chunks
    /\ \E i, j \in DOMAIN chunks :
           /\ i # j
           /\ chunks[i].content = chunks[j].content
           /\ chunks[i].metadata.section_title = chunks[j].metadata.section_title
    /\ \E i \in DOMAIN chunks :
           chunks[i].metadata.section_title = <<"Introduccion", "-", "Climate", "Basics">>

\* C13: a request calls the embedding provider, the index and the generator
\* at most once each, in that order and without a retry; the generator is
\* called only by /query, only after the index answered and the filtered list
\* is non-empty, and only with use_llm true and an API key configured.
C13_CallsOnceInOrder ==
    Answered =>
        /\ calls \in {<<>>, <<"embed">>, <<"embed", "query">>,
                      <<"embed", "query", "generate">>}
        /\ Called(calls, "query") => ext.embed = "ok"
        /\ Called(calls, "generate") =>
            /\ req.endpoint = "query"
            /\ ext.query = "ok"
            /\ Surviving # {}
            /\ req.use_llm
            /\ Truthy(OPENROUTER_API_KEY)

\* C13 witness: a /query that made the three calls, the generator failing,
\* and answered 200.
C13_Witness ==
    /\ Answered
    /\ req.endpoint = "query"
    /\ calls = <<"embed", "query", "generate">>
    /\ ext.gen \notin {"ok", "not_called"}
    /\ resp.status = 200

\* C18: a successful /query response has a non-empty search_results,
\* total_results equal to its length and top_result equal to its first
\* element, whose score no other result exceeds when the index returned its
\* points in descending score order.
C18_SuccessfulQueryShape ==
    (Answered /\ req.endpoint = "query" /\ resp.status = 200) =>
        /\ resp.results # <<>>
        /\ resp.total_results = Len(resp.results)
        /\ resp.top_result = resp.results[1]
        /\ Descending(raw) =>
               \A i \in DOMAIN resp.results :
                   resp.top_result.score >= resp.results[i].score

\* C18 witness: a successful /query response of two results with different
\* scores, from an index that returned them in descending order.
C18_Witness ==
    /\ Answered
    /\ req.endpoint = "query"
    /\ resp.status = 200
    /\ Descending(raw)
    /\ Len(resp.results) = 2
    /\ resp.results[1].score > resp.results[2].score
    /\ resp.total_results = 2

\* The calls a handler may make without changing what the index stores.
ReadOnlyCalls == {"embed", "query", "generate", "get_collections", "get_collection"}

\* C14: while the service is serving, no step of /health, /query, /search,
\* /collection/info or /config, in any order, assigns the globals
\* qdrant_client and embedding_model or changes the stored points, and every
\* call a handler makes is a read.
C14_ServingIsReadOnly ==
    [][proc = "serving" =>
        /\ qdrant_client' = qdrant_client
        /\ embedding_model' = embedding_model
        /\ points' = points
        /\ \A i \in DOMAIN calls' : calls'[i] \in ReadOnlyCalls]_vars

\* C14 witness: a /health request on an initialized service that found no
\* collection listed and asked the index twice.
C14_Witness ==
    /\ proc = "serving"
    /\ req.endpoint = "health"
    /\ Truthy(qdrant_client)
    /\ ext.get_collections = "not_listed"
    /\ calls = <<"get_collections", "get_collection">>

\* A /health request was answered.
HealthAnswered == req.endpoint = "health" /\ resp.status # 0

\* The index answered get_collections and listed the configured collection.
CollectionListed == Truthy(qdrant_client) /\ ext.get_collections = "listed"

\* An index call of the health check raised.
HealthIndexFailure ==
    ext.get_collections = "raises" \/ ext.get_collection = "raises"

\* /health is "healthy" exactly when the collection was listed and the
\* embedding model is loaded, "unhealthy" otherwise, whatever the API key.
HealthStatusRule ==
    /\ resp.status = 200
    /\ resp.body.status \in {"healthy", "unhealthy"}
    /\ resp.body.status = "healthy" <=>
           (CollectionListed /\ embedding_model # "None")
    /\ resp.body.qdrant_connected = CollectionListed

\* C19 as stated: the status rule, and every failure of an index call inside
\* the health check gives index connected = false, never a 500.
C19_HealthStatus ==
    HealthAnswered =>
        /\ HealthStatusRule
        /\ HealthIndexFailure => ~resp.body.qdrant_connected

\* C19 amended: the status rule; a failure of get_collections gives index
\* connected = false; a failure of get_collection after the collection was
\* listed leaves index connected = true with no collection_info; no failure
\* gives a 500.
C19_HealthStatusListedStays ==
    HealthAnswered =>
        /\ HealthStatusRule
        /\ ext.get_collections = "raises" => ~resp.body.qdrant_connected
        /\ (ext.get_collections = "listed" /\ ext.get_collection = "raises") =>
               /\ resp.body.qdrant_connected
               /\ resp.body.collection_info.null

\* C19 witness: get_collection raised after the collection was listed, no API
\* key is configured, and the answer is "healthy".
C19_Witness ==
    /\ HealthAnswered
    /\ ext.get_collections = "listed"
    /\ ext.get_collection = "raises"
    /\ OPENROUTER_API_KEY = "None"
    /\ ~resp.body.openrouter_available
    /\ resp.body.status = "healthy"

\* A run built its points list and called upsert.
Upserted == run.returned # "idle" /\ Called(run.calls, "upsert")

\* The number of times a call was made.
Times(made, name) == Cardinality({i \in DOMAIN made : made[i] = name})

\* C12: the points one ingestion run builds over its n chunks have the ids
\* 0..n-1 in document order, pairwise distinct; point i carries the vector
\* and the payload of the i-th chunk, and its payload's chunk_id is its id.
C12_PointIdsAreChunkPositions ==
    Upserted =>
        LET n == Len(run.chunks)
            sections == run.file.doc[1].sections
        IN  /\ Len(sections) = n
            /\ Len(run.points) = n
            /\ \A k, j \in DOMAIN run.points :
                   k # j => run.points[k].id # run.points[j].id
            /\ \A k \in DOMAIN run.points :
                /\ run.points[k].id = k - 1
                /\ run.points[k].payload.chunk_id = run.points[k].id
                /\ run.points[k].vector = Encode(run.chunks[k].content)
                /\ run.points[k].payload.content = run.chunks[k].content
                /\ run.points[k].payload.content = sections[k].content
                /\ run.points[k].payload.section_type = sections[k].section_type
                /\ run.points[k].payload.section_title = run.chunks[k].metadata.section_title
                /\ run.points[k].payload.chapter_number = run.chunks[k].metadata.chapter_number
                /\ run.points[k].payload.chapter_title = run.chunks[k].metadata.chapter_title

\* C12 witness: a run over three chunks, two of them of the same content,
\* that upserted its three points.
C12_Witness ==
    /\ Upserted
    /\ run.returned = "pair"
    /\ Len(run.points) = 3
    /\ run.points[1].payload.content = run.points[3].payload.content
    /\ run.points[1].payload.content # run.points[2].payload.content
    /\ run.points[3].id = 2

\* C15: when loading the corpus fails (unreadable or malformed file, schema
\* violation) or gives no chunk, the run returns (None, None) and has called
\* neither the embedding model nor the index: nothing is created or stored.
C15_LoadFailureReturnsNone ==
    (run.returned # "idle" /\ (run.file.kind # "ok" \/ run.chunks = <<>>)) =>
        /\ run.returned = "None"
        /\ run.calls = <<>>
        /\ coll = run.before

\* C16: a run calls upsert at most once, with the points of all its chunks;
\* when upsert raises it returns (None, None) and the collection it created
\* stays; it returns (client, model) only when upsert succeeded.
C16_SingleUpsertNoRollback ==
    run.returned # "idle" =>
        /\ Times(run.calls, "upsert") <= 1
        /\ Upserted => Len(run.points) = Len(run.chunks)
        /\ (Upserted /\ run.env.upsert = "raises") =>
            /\ run.returned = "None"
            /\ coll.exists
            /\ coll.stored = run.before.stored
            /\ ~Called(run.calls, "delete_collection")
        /\ run.returned = "pair" => (Upserted /\ run.env.upsert = "ok")

\* C16 witness: a run that created the collection and whose upsert raised.
C16_Witness ==
    /\ Upserted
    /\ run.env.upsert = "raises"
    /\ ~run.before.exists
    /\ Called(run.calls, "create_collection")
    /\ coll.exists
    /\ run.returned = "None"

\* C17: a run never deletes or recreates a collection that exists and creates
\* one only when none exists; after a successful run over n chunks every
\* point i < n holds chunk i of that run and every point stored before with
\* id >= n is as it was.
C17_OverwriteKeepsStalePoints ==
    run.returned # "idle" =>
        /\ ~Called(run.calls, "delete_collection")
        /\ Called(run.calls, "create_collection") => ~run.before.exists
        /\ run.before.exists => coll.exists
        /\ run.returned = "pair" =>
            LET n == Len(run.chunks)
            IN  /\ \A i \in 0..(n - 1) :
                    /\ i \in DOMAIN coll.stored
                    /\ coll.stored[i].payload = Payload(run.chunks[i + 1], i)
                    /\ coll.stored[i].vector = Encode(run.chunks[i + 1].content)
                /\ \A id \in DOMAIN run.before.stored :
                    id >= n => /\ id \in DOMAIN coll.stored
                               /\ coll.stored[id] = run.before.stored[id]

\* C17 witness: a successful run over one chunk on a collection that held
\* three points; points 1 and 2 stay, point 0 is replaced by another chunk.
C17_Witness ==
    /\ run.returned = "pair"
    /\ Len(run.chunks) = 1
    /\ DOMAIN run.before.stored = {0, 1, 2}
    /\ DOMAIN coll.stored = {0, 1, 2}
    /\ coll.stored[0] # run.before.stored[0]
    /\ coll.stored[1] = run.before.stored[1]
    /\ coll.stored[1].payload.chunk_id = 1

\* C20: connect_to_existing_qdrant returns a usable (client, model) only if
\* the collection COLLECTION_NAME, the one search_improved and 'estado'
\* address, exists, and (None, None) otherwise.
C20_ConnectChecksConfiguredCollection ==
    /\ tool.connected = "pair" => tool.COLLECTION_NAME \in tool.collections
    /\ tool.connected = "None" => tool.COLLECTION_NAME \notin tool.collections

====
